---- MODULE Spec2Model ----
(***************************************************************************)
(* A model of amdsmi_cli/amdsmi_logger.py: the AMDSMILogger accumulator    *)
(* (output, multiple_device_output, watch_output), the per-compatibility   *)
(* store functions, flatten_dict and the three print functions.            *)
(*                                                                         *)
(* Python values are tagged records: [t |-> "int"|"str"|"list"|"dict", v]. *)
(* A dict keeps insertion order, so it is a sequence of [k, v] entries     *)
(* with pairwise different keys.  The dicts the logger itself owns         *)
(* (self.output and the dicts appended to multiple_device_output) live in  *)
(* a heap and are named by their index, because the code shares them by    *)
(* reference.                                                              *)
(***************************************************************************)
EXTENDS Integers, Sequences, FiniteSets, TLC

VARIABLES
    compatibility,           \* self.compatibility
    format,                  \* self.format
    destination,             \* self.destination: "stdout" or "file"
    heap,                    \* the dict objects created by the logger
    output,                  \* self.output: index into heap
    multiple_device_output,  \* self.multiple_device_output: indices into heap
    watch_output,            \* self.watch_output: samples holding references
    file,                    \* content of the destination file: written blocks
    stdout,                  \* what was printed: printed blocks
    clock,                   \* last value read from time.time()
    raised,                  \* exception the last call ended in, or "none"
    last,                    \* the last call and its arguments
    calls,                   \* number of calls made, per operation
    limit,                   \* number of calls explored, per operation
    caller,                  \* what the caller passes to store_output: the
                             \* device handles and the names of the inputs
    captured,                \* history: each watch sample as it was when taken
    amdsmi_output,           \* self.output of a logger with compatibility
                             \* 'amdsmi' that receives the same calls
    flat_arg,                \* argument of the last direct flatten_dict call
    flat_ret                 \* its return value

vars == <<compatibility, format, destination, heap, output,
          multiple_device_output, watch_output, file, stdout, clock, raised,
          last, calls, limit, caller, captured, amdsmi_output, flat_arg,
          flat_ret>>

----------------------------------------------------------------------------
(* Python values *)

IntV(n) == [t |-> "int", v |-> n]
StrV(s) == [t |-> "str", v |-> s]
ListV(s) == [t |-> "list", v |-> s]
DictV(entries) == [t |-> "dict", v |-> entries]

IsDict(x) == x.t = "dict"
IsStr(x) == x.t = "str"

\* The strings the model uses that contain the substring 'AMDSMI_STATUS'.
StatusStrings == {"AMDSMI_STATUS_NOT_SUPPORTED", "err AMDSMI_STATUS_INVAL"}

\* 'AMDSMI_STATUS' in value
ContainsStatus(s) == s \in StatusStrings

\* key in d
DictHas(d, key) == \E i \in 1..Len(d) : d[i].k = key

\* d[key]
DictGet(d, key) == d[CHOOSE i \in 1..Len(d) : d[i].k = key].v

\* list(d.keys())
DictKeys(d) == [i \in 1..Len(d) |-> d[i].k]

\* d[key] = value: an existing key keeps its position
DictSet(d, key, value) ==
    IF DictHas(d, key)
    THEN [i \in 1..Len(d) |->
              IF d[i].k = key THEN [k |-> key, v |-> value] ELSE d[i]]
    ELSE Append(d, [k |-> key, v |-> value])

\* d.pop(key), the dict that is left
DictPop(d, key) == SelectSeq(d, LAMBDA e : e.k # key)

\* d.update(other)
RECURSIVE DictUpdate(_, _)
DictUpdate(d, other) ==
    IF other = <<>> THEN d
    ELSE DictUpdate(DictSet(d, Head(other).k, Head(other).v), Tail(other))

----------------------------------------------------------------------------
(* flatten_dict *)

\* if key in ('asic', 'bus', 'pcie', 'vbios','board', 'limit')
GpuvPrefixKeys == {"asic", "bus", "pcie", "vbios", "board", "limit"}

\* The loop over value.items() that builds value_with_parent_key from a dict
\* of more than one item: a child dict's keys are joined to the parent key.
RECURSIVE JoinChildKeys(_, _, _)
JoinChildKeys(parent_key, child_dict, acc) ==
    IF child_dict = <<>> THEN acc
    ELSE JoinChildKeys(parent_key, Tail(child_dict),
             DictSet(acc, parent_key \o "_" \o Head(child_dict).k,
                     Head(child_dict).v))

RECURSIVE ValueWithParentKey(_, _)
ValueWithParentKey(value, acc) ==
    IF value = <<>> THEN acc
    ELSE LET parent_key == Head(value).k
             child_dict == Head(value).v
         IN  ValueWithParentKey(Tail(value),
                 IF IsDict(child_dict)
                 THEN JoinChildKeys(parent_key, child_dict.v, acc)
                 ELSE DictSet(acc, parent_key, child_dict))

\* The gpuvsmi loop that prefixes every child key with the key itself.
RECURSIVE PrefixWithKey(_, _, _)
PrefixWithKey(key, value, acc) ==
    IF value = <<>> THEN acc
    ELSE PrefixWithKey(key, Tail(value),
             DictSet(acc, key \o "_" \o Head(value).k, Head(value).v))

\* flatten_dict(target_dict) of a logger whose compatibility is compat;
\* target_dict is the entry sequence of a dict.
RECURSIVE flatten_dict(_, _)
RECURSIVE FlattenItems(_, _, _)
FlattenItems(compat, items, output_dict) ==
    IF items = <<>> THEN output_dict
    ELSE LET key == Head(items).k
             value == Head(items).v
         IN  IF IsDict(value)
             THEN LET joined == IF Len(value.v) > 1
                                THEN ValueWithParentKey(value.v, <<>>)
                                ELSE value.v
                      prefixed == IF compat = "gpuvsmi" /\ key \in GpuvPrefixKeys
                                  THEN PrefixWithKey(key, joined, <<>>)
                                  ELSE joined
                  IN  FlattenItems(compat, Tail(items),
                          DictUpdate(output_dict, flatten_dict(compat, prefixed)))
             ELSE FlattenItems(compat, Tail(items),
                      DictSet(output_dict, key, value))

flatten_dict(compat, target_dict) == FlattenItems(compat, target_dict, <<>>)

----------------------------------------------------------------------------
(* store_output and the three compatibility functions *)

Formats == {"json", "csv", "human_readable"}
Compatibilities == {"amdsmi", "rocmsmi", "gpuvsmi"}

DeviceHandles == {"dev0", "dev1"}

\* self.amd_smi_helpers.get_gpu_id_from_device_handle(device_handle): the
\* helper is outside this file; the handles of the model map to 0 and 1.
get_gpu_id_from_device_handle(device_handle) ==
    IF device_handle = "dev0" THEN 0 ELSE 1

\* What a call did to the logger's current dict: 'mutated' is the content of
\* the dict self.output named when the call began, 'fresh' holds the dict
\* the call bound self.output to, if it made one, and 'raised' the exception.
Effect(mutated, fresh, exc) ==
    [mutated |-> mutated, fresh |-> fresh, raised |-> exc]

\* raise amdsmi_cli_exceptions(self, "Invalid output format given, ..."):
\* amdsmi_cli_exceptions is the imported module and the module is not part
\* of this file; evaluating the raise statement ends the call in an
\* exception whatever the call of that name does.
InvalidFormatRaise == "amdsmi_cli_exceptions"

\* self.output['gpu'] = int(gpu_id)
SetGpu(out, gpu_id) == DictSet(out, "gpu", IntV(gpu_id))

\* The csv branch shared by _store_output_amdsmi and _store_output_gpuvsmi up
\* to the post-processing: flatten_dict(data) fails with AttributeError when
\* data has no items().
StoreCsv(compat, out, gpu_id, argument, data) ==
    IF argument = "values" \/ IsDict(data)
    THEN IF IsDict(data)
         THEN Effect(DictUpdate(SetGpu(out, gpu_id),
                                flatten_dict(compat, data.v)), <<>>, "none")
         ELSE Effect(SetGpu(out, gpu_id), <<>>, "AttributeError")
    ELSE Effect(DictSet(SetGpu(out, gpu_id), argument, data), <<>>, "none")

\* A variant that sets 'gpu' before it looks at the format
store_output_amdsmi_gpu_first(fmt, out, gpu_id, argument, data) ==
    IF fmt \in {"json", "human_readable"}
    THEN IF argument = "values" /\ IsDict(data)
         THEN Effect(DictUpdate(SetGpu(out, gpu_id), data.v), <<>>, "none")
         ELSE Effect(DictSet(SetGpu(out, gpu_id), argument, data), <<>>, "none")
    ELSE IF fmt = "csv"
    THEN StoreCsv("amdsmi", out, gpu_id, argument, data)
    ELSE Effect(SetGpu(out, gpu_id), <<>>, InvalidFormatRaise)

store_output_amdsmi(fmt, out, gpu_id, argument, data) ==
    IF fmt \in {"json", "human_readable"}
    THEN IF argument = "values" /\ IsDict(data)
         THEN Effect(DictUpdate(SetGpu(out, gpu_id), data.v), <<>>, "none")
         ELSE Effect(DictSet(SetGpu(out, gpu_id), argument, data), <<>>, "none")
    ELSE IF fmt = "csv"
    THEN StoreCsv("amdsmi", out, gpu_id, argument, data)
    ELSE Effect(out, <<>>, InvalidFormatRaise)

store_output_rocmsmi(fmt, out, gpu_id, argument, data) ==
    IF fmt \in Formats
    THEN Effect(out, <<>>, "none")
    ELSE Effect(out, <<>>, InvalidFormatRaise)

\* The loop of _store_output_gpuvsmi over self.output.items() that builds
\* gpuv_flat_dict.
RECURSIVE GpuvFlatDict(_, _)
GpuvFlatDict(items, gpuv_flat_dict) ==
    IF items = <<>> THEN gpuv_flat_dict
    ELSE LET key == Head(items).k
             value == Head(items).v
             copied == DictSet(gpuv_flat_dict, key, value)
             masked == IF IsStr(value) /\ ContainsStatus(value.v)
                       THEN DictSet(copied, key, StrV("N/A"))
                       ELSE copied
             renamed == IF key \in {"bdf", "uuid"}
                        THEN DictSet(DictPop(masked, key), "gpu_" \o key,
                                     DictGet(masked, key))
                        ELSE masked
         IN  GpuvFlatDict(Tail(items), renamed)

store_output_gpuvsmi(fmt, out, gpu_id, argument, data) ==
    IF fmt \in {"json", "human_readable"}
    THEN Effect(DictSet(SetGpu(out, gpu_id), argument, data), <<>>, "none")
    ELSE IF fmt = "csv"
    THEN LET stored == StoreCsv("gpuvsmi", out, gpu_id, argument, data)
         IN  IF stored.raised # "none" THEN stored
             ELSE Effect(stored.mutated,
                         <<GpuvFlatDict(stored.mutated, <<>>)>>, "none")
    ELSE Effect(out, <<>>, InvalidFormatRaise)

\* store_output: the dispatch on self.compatibility
store_output(compat, fmt, out, device_handle, argument, data) ==
    LET gpu_id == get_gpu_id_from_device_handle(device_handle)
    IN  IF compat = "amdsmi"
        THEN store_output_amdsmi(fmt, out, gpu_id, argument, data)
        ELSE IF compat = "rocmsmi"
        THEN store_output_rocmsmi(fmt, out, gpu_id, argument, data)
        ELSE IF compat = "gpuvsmi"
        THEN store_output_gpuvsmi(fmt, out, gpu_id, argument, data)
        ELSE Effect(out, <<>>, "none")

----------------------------------------------------------------------------
(* The logger's dicts seen by value *)

\* The dict self.output names
CurrentRecord == heap[output]

\* A dict of the heap as json.dump, csv and yaml see it
RecordValue(id) == DictV(heap[id])

\* self.multiple_device_output as a list of dicts
MultipleDeviceValue ==
    ListV([i \in 1..Len(multiple_device_output) |->
               RecordValue(multiple_device_output[i])])

\* What a reference kept in a watch sample names now
Deref(ref) ==
    IF ref.list THEN MultipleDeviceValue ELSE RecordValue(ref.id)

\* One sample of self.watch_output: {'timestamp': ..., 'values': ...}
SampleValue(sample) ==
    DictV(<<[k |-> "timestamp", v |-> IntV(sample.timestamp)],
            [k |-> "values", v |-> Deref(sample.values)]>>)

\* self.watch_output as a list of dicts
WatchValue ==
    ListV([i \in 1..Len(watch_output) |-> SampleValue(watch_output[i])])

----------------------------------------------------------------------------
(* Calls of store_output, store_multiple_device_output, store_watch_output *)

Called(op) == [calls EXCEPT ![op] = @ + 1]

\* The calls the model explores: at most limit[op] calls of each operation
\* and at most limit.total calls in all
MayCall(op) ==
    /\ calls[op] < limit[op]
    /\ calls.store + calls.multiple + calls.watch + calls.print < limit.total

\* The (argument, data) pairs the callers of the model pass to store_output,
\* by name
StoreInputs == {"power", "status", "bdf", "asic", "errors"}

StoreInput(name) ==
    CASE name = "power" ->
             [argument |-> "values",
              data |-> DictV(<<[k |-> "power",
                                v |-> DictV(<<[k |-> "average_socket_power",
                                               v |-> IntV(15)],
                                              [k |-> "gfx_voltage",
                                               v |-> IntV(900)]>>)]>>)]
      [] name = "status" ->
             [argument |-> "values",
              data |-> DictV(<<[k |-> "status",
                                v |-> StrV("AMDSMI_STATUS_NOT_SUPPORTED")]>>)]
      [] name = "bdf" ->
             [argument |-> "bdf", data |-> StrV("0000:01:00.0")]
      [] name = "asic" ->
             [argument |-> "asic",
              data |-> DictV(<<[k |-> "market_name", v |-> StrV("X")]>>)]
      [] name = "errors" ->
             [argument |-> "errors",
              data |-> ListV(<<StrV("err AMDSMI_STATUS_INVAL"), StrV("ok")>>)]

\* store_output(device_handle, argument, data)
Store(device_handle, argument, data) ==
    /\ MayCall("store")
    /\ LET done == store_output(compatibility, format, CurrentRecord,
                                device_handle, argument, data)
           shadow == store_output("amdsmi", format, amdsmi_output,
                                  device_handle, argument, data)
           mutated_heap == [heap EXCEPT ![output] = done.mutated]
       IN  /\ heap' = mutated_heap \o done.fresh
           /\ output' = IF done.fresh = <<>> THEN output ELSE Len(heap) + 1
           /\ raised' = done.raised
           /\ amdsmi_output' = shadow.mutated
    /\ last' = [op |-> "store", device_handle |-> device_handle,
                argument |-> argument, data |-> data]
    /\ calls' = Called("store")
    /\ UNCHANGED <<compatibility, format, destination, multiple_device_output,
                   watch_output, file, stdout, clock, limit, caller, captured,
                   flat_arg, flat_ret>>

\* A variant without the 'if not self.output: return' guard
StoreMultipleDeviceOutput_unguarded ==
    /\ MayCall("multiple")
    /\ multiple_device_output' = Append(multiple_device_output, output)
    /\ heap' = Append(heap, <<>>)
    /\ output' = Len(heap) + 1
    /\ amdsmi_output' = <<>>
    /\ raised' = "none"
    /\ last' = [op |-> "store_multiple_device_output"]
    /\ calls' = Called("multiple")
    /\ UNCHANGED <<compatibility, format, destination, watch_output, file,
                   stdout, clock, limit, caller, captured, flat_arg, flat_ret>>

\* store_multiple_device_output()
StoreMultipleDeviceOutput ==
    /\ MayCall("multiple")
    /\ IF CurrentRecord = <<>>
       THEN UNCHANGED <<heap, output, multiple_device_output>>
       ELSE /\ multiple_device_output' = Append(multiple_device_output, output)
            /\ heap' = Append(heap, <<>>)
            /\ output' = Len(heap) + 1
    /\ amdsmi_output' = <<>>
    /\ raised' = "none"
    /\ last' = [op |-> "store_multiple_device_output"]
    /\ calls' = Called("multiple")
    /\ UNCHANGED <<compatibility, format, destination, watch_output, file,
                   stdout, clock, limit, caller, captured, flat_arg, flat_ret>>

\* store_watch_output(multiple_devices); time.time() returns 'now', which is
\* not before the value it returned last
StoreWatchOutput(multiple_devices, now) ==
    /\ MayCall("watch")
    /\ now >= clock
    /\ LET sample == [timestamp |-> now,
                      values |-> IF multiple_devices
                                 THEN [list |-> TRUE, id |-> 0]
                                 ELSE [list |-> FALSE, id |-> output]]
       IN  /\ watch_output' = Append(watch_output, sample)
           /\ captured' = Append(captured, SampleValue(sample))
    /\ clock' = now
    /\ raised' = "none"
    /\ last' = [op |-> "store_watch_output", multiple_devices |-> multiple_devices]
    /\ calls' = Called("watch")
    /\ UNCHANGED <<compatibility, format, destination, heap, output,
                   multiple_device_output, file, stdout, limit, caller,
                   amdsmi_output,
                   flat_arg, flat_ret>>

----------------------------------------------------------------------------
(* print_output: json *)

\* json.dumps(value, indent = 4) / json.dump(value, output_file, indent=4):
\* the text is kept as the document it spells.
JsonText(value) == [kind |-> "json", doc |-> value]

\* What a call of a print function did: the new file content, the new
\* terminal content and the exception.
Printed(new_file, new_stdout, exc) ==
    [file |-> new_file, stdout |-> new_stdout, raised |-> exc]

\* A variant that opens the file with 'a' for the flush as well
print_json_output_append(multiple_device_output_arg, watch_output_arg) ==
    LET json_output == IF multiple_device_output_arg
                       THEN MultipleDeviceValue
                       ELSE RecordValue(output)
    IN  IF destination = "stdout"
        THEN IF watch_output_arg
             THEN Printed(file, stdout, "none")
             ELSE Printed(file, Append(stdout, JsonText(json_output)), "none")
        ELSE IF watch_output_arg
             THEN Printed(Append(file, JsonText(WatchValue)), stdout, "none")
             ELSE Printed(Append(file, JsonText(json_output)), stdout, "none")

print_json_output(multiple_device_output_arg, watch_output_arg) ==
    LET json_output == IF multiple_device_output_arg
                       THEN MultipleDeviceValue
                       ELSE RecordValue(output)
    IN  IF destination = "stdout"
        THEN IF watch_output_arg
             THEN Printed(file, stdout, "none")
             ELSE Printed(file, Append(stdout, JsonText(json_output)), "none")
        ELSE IF watch_output_arg
             THEN Printed(<<JsonText(WatchValue)>>, stdout, "none")
             ELSE Printed(Append(file, JsonText(json_output)), stdout, "none")

----------------------------------------------------------------------------
(* print_output: csv *)

\* str(value) of a value of the model
RECURSIVE PyStr(_)
RECURSIVE PyReprItems(_)
PyReprItems(items) ==
    IF items = <<>> THEN ""
    ELSE LET first == IF IsStr(Head(items))
                      THEN "'" \o Head(items).v \o "'"
                      ELSE PyStr(Head(items))
         IN  IF Len(items) = 1 THEN first
             ELSE first \o ", " \o PyReprItems(Tail(items))

PyStr(value) ==
    IF value.t = "int" THEN ToString(value.v)
    ELSE IF value.t = "str" THEN value.v
    ELSE IF value.t = "list" THEN "[" \o PyReprItems(value.v) \o "]"
    ELSE ToString(value.v)

\* A field as csv.writer writes it (QUOTE_MINIMAL): quoted when its text holds
\* the delimiter; of the model's values only a list of several items does.
CsvField(value) ==
    [text |-> PyStr(value),
     quoted |-> value.t = "list" /\ Len(value.v) > 1]

\* DictWriter._dict_to_list(rowdict) with restval '' and extrasaction 'raise'
HasExtraFields(fieldnames, rowdict) ==
    \E i \in 1..Len(rowdict) :
        \A j \in 1..Len(fieldnames) : fieldnames[j] # rowdict[i].k

DictToList(fieldnames, rowdict) ==
    [j \in 1..Len(fieldnames) |->
        IF DictHas(rowdict, fieldnames[j])
        THEN CsvField(DictGet(rowdict, fieldnames[j]))
        ELSE CsvField(StrV(""))]

\* writer.writerows(rowdicts): rows are written one by one until a row has a
\* field that is no fieldname, which raises ValueError.
RECURSIVE WriteRows(_, _, _)
WriteRows(fieldnames, rowdicts, written) ==
    IF rowdicts = <<>> THEN [lines |-> written, raised |-> "none"]
    ELSE IF HasExtraFields(fieldnames, Head(rowdicts))
    THEN [lines |-> written, raised |-> "ValueError"]
    ELSE WriteRows(fieldnames, Tail(rowdicts),
                   Append(written, DictToList(fieldnames, Head(rowdicts))))

\* writer.writeheader() then writer.writerows(stored_csv_output)
CsvWrite(stored_csv_output) ==
    LET csv_header == DictKeys(stored_csv_output[1])
        header_line == [j \in 1..Len(csv_header) |->
                            CsvField(StrV(csv_header[j]))]
    IN  WriteRows(csv_header, stored_csv_output, <<header_line>>)

\* str(csv_stdout_output).replace('"','')
StripQuotes(lines) ==
    [i \in 1..Len(lines) |->
        [j \in 1..Len(lines[i]) |-> [lines[i][j] EXCEPT !.quoted = FALSE]]]

CsvText(lines) == [kind |-> "csv", lines |-> lines]

print_csv_output(multiple_device_output_arg, watch_output_arg) ==
    LET stored_csv_output ==
            IF multiple_device_output_arg
            THEN [i \in 1..Len(multiple_device_output) |->
                      heap[multiple_device_output[i]]]
            ELSE <<CurrentRecord>>
    IN  IF watch_output_arg THEN Printed(file, stdout, "none")
        ELSE IF stored_csv_output = <<>>
        THEN Printed(file, stdout, "IndexError")
        ELSE LET wrote == CsvWrite(stored_csv_output)
             IN  IF destination = "stdout"
                 THEN IF wrote.raised # "none"
                      THEN Printed(file, stdout, wrote.raised)
                      ELSE Printed(file,
                               Append(stdout,
                                   CsvText(IF compatibility = "gpuvsmi"
                                           THEN StripQuotes(wrote.lines)
                                           ELSE wrote.lines)),
                               "none")
                 ELSE Printed(Append(file, CsvText(wrote.lines)), stdout,
                              wrote.raised)

----------------------------------------------------------------------------
(* print_output: human_readable *)

\* key.upper() for the keys of the model
Upper(key) ==
    CASE key = "gpu" -> "GPU"
      [] key = "values" -> "VALUES"
      [] key = "power" -> "POWER"
      [] key = "average_socket_power" -> "AVERAGE_SOCKET_POWER"
      [] key = "gfx_voltage" -> "GFX_VOLTAGE"
      [] key = "status" -> "STATUS"
      [] key = "bdf" -> "BDF"
      [] key = "asic" -> "ASIC"
      [] key = "market_name" -> "MARKET_NAME"
      [] key = "errors" -> "ERRORS"
      [] OTHER -> key

\* _capitalize_keys(input_dict), on the entries of a dict
RECURSIVE capitalize_keys(_)
RECURSIVE CapitalizeList(_)
CapitalizeList(items) ==
    [i \in 1..Len(items) |->
        IF IsDict(items[i]) THEN DictV(capitalize_keys(items[i].v))
        ELSE items[i]]

capitalize_keys(input_dict) ==
    [i \in 1..Len(input_dict) |->
        [k |-> Upper(input_dict[i].k),
         v |-> IF IsDict(input_dict[i].v)
               THEN DictV(capitalize_keys(input_dict[i].v.v))
               ELSE IF input_dict[i].v.t = "list"
               THEN ListV(CapitalizeList(input_dict[i].v.v))
               ELSE input_dict[i].v]]

\* One line of the cleaned text: 'level' counts four-space indents, 'key' is
\* the text before the first colon and 'value' the text after it.
Line(level, key, value) == [level |-> level, key |-> key, value |-> value]

\* The lines yaml.dump writes for a dict, after the passes of
\* _convert_json_to_human_readable: 'GPU: n' becomes 'GPU n:' under gpuvsmi,
\* a spacer key line is removed, a list item loses its dash and every
\* two-space indent becomes four spaces.
RECURSIVE HumanLines(_, _, _)
RECURSIVE ItemLines(_, _, _)
ItemLines(compat, items, level) ==
    IF items = <<>> THEN <<>>
    ELSE (IF IsDict(Head(items))
          THEN HumanLines(compat, Head(items).v, level + 1)
          ELSE <<Line(level + 1, "", PyStr(Head(items)))>>)
         \o ItemLines(compat, Tail(items), level)

HumanLines(compat, entries, level) ==
    IF entries = <<>> THEN <<>>
    ELSE LET key == Head(entries).k
             value == Head(entries).v
             here ==
                 IF IsDict(value)
                 THEN IF value.v = <<>> THEN <<Line(level, key, "{}")>>
                      ELSE (IF key = "AMDSMI_SPACING_REMOVAL" THEN <<>>
                            ELSE <<Line(level, key, "")>>)
                           \o HumanLines(compat, value.v, level + 1)
                 ELSE IF value.t = "list"
                 THEN IF value.v = <<>> THEN <<Line(level, key, "[]")>>
                      ELSE <<Line(level, key, "")>>
                           \o ItemLines(compat, value.v, level)
                 ELSE IF compat = "gpuvsmi" /\ key = "GPU" /\ value.t = "int"
                 THEN <<Line(level, "GPU " \o PyStr(value), "")>>
                 ELSE <<Line(level, key, PyStr(value))>>
         IN  here \o HumanLines(compat, Tail(entries), level)

\* _convert_json_to_human_readable(json_object)
convert_json_to_human_readable(compat, json_object) ==
    IF json_object = <<>> THEN <<Line(0, "{}", "")>>
    ELSE HumanLines(compat, capitalize_keys(json_object), 0)

RECURSIVE ConvertAll(_, _)
ConvertAll(compat, ids) ==
    IF ids = <<>> THEN <<>>
    ELSE convert_json_to_human_readable(compat, heap[Head(ids)])
         \o ConvertAll(compat, Tail(ids))

HumanText(lines) == [kind |-> "text", lines |-> lines]

\* The strings of the model are ASCII, so print() does not raise
\* UnicodeEncodeError and the fallback prints the same text.
print_human_readable_output(multiple_device_output_arg, watch_output_arg) ==
    LET human_readable_output ==
            IF multiple_device_output_arg
            THEN ConvertAll(compatibility, multiple_device_output)
            ELSE convert_json_to_human_readable(compatibility, CurrentRecord)
    IN  IF watch_output_arg THEN Printed(file, stdout, "none")
        ELSE IF destination = "stdout"
        THEN Printed(file, Append(stdout, HumanText(human_readable_output)), "none")
        ELSE Printed(Append(file, HumanText(human_readable_output)), stdout, "none")

----------------------------------------------------------------------------
(* print_output *)

print_output(multiple_device_output_arg, watch_output_arg) ==
    IF format = "json"
    THEN print_json_output(multiple_device_output_arg, watch_output_arg)
    ELSE IF format = "csv"
    THEN print_csv_output(multiple_device_output_arg, watch_output_arg)
    ELSE IF format = "human_readable"
    THEN print_human_readable_output(multiple_device_output_arg, watch_output_arg)
    ELSE Printed(file, stdout, "none")

PrintOutput(multiple_device_output_arg, watch_output_arg) ==
    /\ MayCall("print")
    /\ LET done == print_output(multiple_device_output_arg, watch_output_arg)
       IN  /\ file' = done.file
           /\ stdout' = done.stdout
           /\ raised' = done.raised
    /\ last' = [op |-> "print_output",
                multiple_device_output |-> multiple_device_output_arg,
                watch_output |-> watch_output_arg]
    /\ calls' = Called("print")
    /\ UNCHANGED <<compatibility, format, destination, heap, output,
                   multiple_device_output, watch_output, clock, limit,
                   caller, captured, amdsmi_output, flat_arg, flat_ret>>

----------------------------------------------------------------------------
(* The logger and its callers *)

\* Calls explored from any configuration, per operation
MaxStore == 2
MaxMultiple == 2
MaxWatch == 1
MaxPrint == 1
\* Largest value time.time() returns
MaxClock == 1
\* Calls explored, in all, when only the accumulator is driven
AccCalls == 4
\* Calls explored, in all, in a watch session that writes json to a file
SessionCalls == 5
\* Calls explored, in all, with a format the logger does not support
BadCalls == 5

\* The content the destination file may have before the logger writes to it
OldContent == [kind |-> "old", doc |-> StrV("earlier run")]

\* AMDSMILogger.__init__ with any compatibility, format and destination
Constructed(lim, handles, inputs) ==
    /\ compatibility \in Compatibilities
    /\ format \in Formats \cup {"xml"}
    /\ destination \in {"stdout", "file"}
    /\ heap = <<(<<>>)>>
    /\ output = 1
    /\ multiple_device_output = <<>>
    /\ watch_output = <<>>
    /\ file = <<OldContent>>
    /\ stdout = <<>>
    /\ clock = 0
    /\ raised = "none"
    /\ last = [op |-> "init"]
    /\ calls = [store |-> 0, multiple |-> 0, watch |-> 0, print |-> 0]
    /\ limit = lim
    /\ caller = [handles |-> handles, inputs |-> inputs]
    /\ captured = <<>>
    /\ amdsmi_output = <<>>
    /\ flat_arg = <<>>
    /\ flat_ret = <<>>

Limits(store, multiple, watch, print, total) ==
    [store |-> store, multiple |-> multiple, watch |-> watch, print |-> print,
     total |-> total]

\* At most 'total' calls, of whatever operation
AnyCalls(total) == Limits(total, total, total, total, total)

Init ==
    Constructed(Limits(MaxStore, MaxMultiple, MaxWatch, MaxPrint,
                       MaxStore + MaxMultiple + MaxWatch + MaxPrint),
                DeviceHandles, StoreInputs)

CallStore ==
    \E h \in caller.handles, in \in caller.inputs :
        Store(h, StoreInput(in).argument, StoreInput(in).data)

CallStoreWatchOutput ==
    \E m \in BOOLEAN, now \in {clock, clock + 1} \cap (0..MaxClock) :
        StoreWatchOutput(m, now)

CallPrintOutput ==
    \E m \in BOOLEAN, w \in BOOLEAN : PrintOutput(m, w)

Next ==
    \/ CallStore
    \/ StoreMultipleDeviceOutput
    \/ CallStoreWatchOutput
    \/ CallPrintOutput

Spec == Init /\ [][Next]_vars

\* The accumulator alone: store, capture and watch calls, nothing printed
InitAccumulate ==
    Constructed(AnyCalls(AccCalls), {"dev1"}, StoreInputs)

NextAccumulate ==
    \/ CallStore
    \/ StoreMultipleDeviceOutput
    \/ CallStoreWatchOutput

SpecAccumulate == InitAccumulate /\ [][NextAccumulate]_vars

\* A watch session of a logger that writes json to a file, polling one
\* device for its power values, a status and its bdf
SessionInputs == {"power", "status", "bdf"}

InitSession ==
    /\ Constructed(AnyCalls(SessionCalls), {"dev1"}, SessionInputs)
    /\ format = "json"
    /\ destination = "file"

SpecSession == InitSession /\ [][Next]_vars

\* A logger constructed with a format that is none of json, csv,
\* human_readable
InitBadFormat ==
    /\ Constructed(AnyCalls(BadCalls), DeviceHandles, StoreInputs)
    /\ format \notin Formats

SpecBadFormat == InitBadFormat /\ [][Next]_vars

----------------------------------------------------------------------------
(* flatten_dict called on its own *)

FlatWidth == 2

\* The sequences of at most 'width' pairwise different keys
KeyLists(keys, width) ==
    { ks \in UNION { [1..n -> keys] : n \in 1..width } :
          \A i, j \in 1..Len(ks) : i # j => ks[i] # ks[j] }

\* The dicts with at most 'width' entries, keys in 'keys', values in 'values'
DictsOver(keys, values, width) ==
    UNION { { [i \in 1..Len(ks) |-> [k |-> ks[i], v |-> vs[i]]] :
                  vs \in [1..Len(ks) -> values] } :
            ks \in KeyLists(keys, width) }

Scalars == {IntV(1), IntV(2)}

InnerDicts == DictsOver({"x"}, Scalars, 1)

MiddleDicts ==
    DictsOver({"a", "b"}, Scalars \cup { DictV(d) : d \in InnerDicts }, FlatWidth)

\* Records of three levels; 'asic' is one of the keys gpuvsmi prefixes.
FlattenInputs ==
    DictsOver({"p", "asic"}, Scalars \cup { DictV(d) : d \in MiddleDicts },
              FlatWidth)

InitFlatten ==
    /\ Constructed(AnyCalls(0), {}, {})
    /\ compatibility \in {"amdsmi", "gpuvsmi"}
    /\ format = "csv"
    /\ destination = "stdout"

\* flatten_dict(target_dict), called by a user of the logger
FlattenDict(target_dict) ==
    /\ last.op = "init"
    /\ flat_arg' = target_dict
    /\ flat_ret' = flatten_dict(compatibility, target_dict)
    /\ raised' = "none"
    /\ last' = [op |-> "flatten_dict"]
    /\ UNCHANGED <<compatibility, format, destination, heap, output,
                   multiple_device_output, watch_output, file, stdout, clock,
                   calls, limit, caller, captured, amdsmi_output>>

NextFlatten == \E r \in FlattenInputs : FlattenDict(r)

SpecFlatten == InitFlatten /\ [][NextFlatten]_vars

----------------------------------------------------------------------------
(* Properties *)

\* A string holding 'AMDSMI_STATUS' occurs in the value, at any depth
RECURSIVE HoldsStatusString(_)
HoldsStatusString(value) ==
    IF IsStr(value) THEN ContainsStatus(value.v)
    ELSE IF IsDict(value)
    THEN \E i \in 1..Len(value.v) : HoldsStatusString(value.v[i].v)
    ELSE IF value.t = "list"
    THEN \E i \in 1..Len(value.v) : HoldsStatusString(value.v[i])
    ELSE FALSE

StoreReturned == last.op = "store" /\ raised = "none"

\* C1: under gpuvsmi, in every format the logger supports, once store_output
\* has returned no string holding 'AMDSMI_STATUS' is left in the current
\* record, and a status string stored under its own key reads 'N/A'.
C1_StatusMaskedInEveryFormat ==
    (compatibility = "gpuvsmi" /\ format \in Formats /\ StoreReturned) =>
        /\ ~HoldsStatusString(RecordValue(output))
        /\ (IsStr(last.data) /\ ContainsStatus(last.data.v)) =>
               /\ DictHas(CurrentRecord, last.argument)
               /\ DictGet(CurrentRecord, last.argument) = StrV("N/A")

\* C2: in every compatibility and every supported format, once store_output
\* has returned the current record binds 'gpu' to the integer id of the
\* device handle.
C2_GpuAfterStore ==
    (format \in Formats /\ StoreReturned) =>
        /\ DictHas(CurrentRecord, "gpu")
        /\ DictGet(CurrentRecord, "gpu") =
               IntV(get_gpu_id_from_device_handle(last.device_handle))

Flushed ==
    /\ last.op = "print_output"
    /\ last.watch_output
    /\ format = "json"
    /\ destination = "file"

\* C3: json to a file: after the flush (print_output with watch_output set)
\* the file holds one json document and nothing else, a list with one
\* {timestamp, values} dict per store_watch_output call, in the order of the
\* calls.
C3_FlushRewritesFile ==
    Flushed =>
        /\ Len(file) = 1
        /\ file[1].kind = "json"
        /\ file[1].doc.t = "list"
        /\ Len(file[1].doc.v) = calls.watch
        /\ \A i \in 1..Len(file[1].doc.v) :
               /\ IsDict(file[1].doc.v[i])
               /\ DictKeys(file[1].doc.v[i].v) = <<"timestamp", "values">>
               /\ DictGet(file[1].doc.v[i].v, "timestamp") =
                      DictGet(captured[i].v, "timestamp")

C3_Witness ==
    /\ Flushed
    /\ calls.watch = 2
    /\ calls.print = 2
    /\ calls.store = 1
    /\ Len(file) = 1
    /\ DictGet(captured[1].v, "timestamp") # DictGet(captured[2].v, "timestamp")

\* C4: store_multiple_device_output called while the current record is empty
\* changes neither multiple_device_output nor the current record nor
\* watch_output, and multiple_device_output never holds an empty record.
C4_EmptyCaptureIsNoOp ==
    /\ [](\A i \in 1..Len(multiple_device_output) :
              heap[multiple_device_output[i]] # <<>>)
    /\ [][(last'.op = "store_multiple_device_output" /\ CurrentRecord = <<>>)
              => UNCHANGED <<heap, output, multiple_device_output,
                             watch_output>>]_vars

C4_Witness ==
    /\ last.op = "store_multiple_device_output"
    /\ calls.multiple = 2
    /\ Len(multiple_device_output) = 1
    /\ calls.store >= 1
    /\ Len(watch_output) = 1

\* The scalars and lists at the leaves of a dict, in the order of a walk
RECURSIVE Leaves(_)
Leaves(entries) ==
    IF entries = <<>> THEN <<>>
    ELSE (IF IsDict(Head(entries).v) THEN Leaves(Head(entries).v.v)
          ELSE <<Head(entries).v>>)
         \o Leaves(Tail(entries))

Occurrences(leaf, leaves) ==
    Cardinality({ i \in 1..Len(leaves) : leaves[i] = leaf })

\* C5: flatten_dict loses no data: every leaf occurrence of the argument is a
\* value of the result, so each leaf value occurs in the result as often as
\* in the argument.
C5_FlattenKeepsEveryLeaf ==
    last.op = "flatten_dict" =>
        \A leaf \in Scalars :
            Occurrences(leaf, Leaves(flat_ret)) =
                Occurrences(leaf, Leaves(flat_arg))

\* The records a csv print_output call was given
CsvRecords ==
    IF last.multiple_device_output
    THEN [i \in 1..Len(multiple_device_output) |->
              heap[multiple_device_output[i]]]
    ELSE <<CurrentRecord>>

CsvPrinted ==
    /\ last.op = "print_output"
    /\ ~last.watch_output
    /\ format = "csv"
    /\ CsvRecords # <<>>

\* The block the last print_output call wrote
LastBlock ==
    IF destination = "stdout" THEN stdout[Len(stdout)] ELSE file[Len(file)]

\* C6: a csv print_output call over a non-empty list of records completes and
\* writes the keys of the first record as header and one row per record,
\* also when a later record has a key the first record lacks.
C6_CsvHeaderFromFirstRecord ==
    CsvPrinted =>
        /\ raised = "none"
        /\ LastBlock.kind = "csv"
        /\ Len(LastBlock.lines) = 1 + Len(CsvRecords)
        /\ [j \in 1..Len(LastBlock.lines[1]) |-> LastBlock.lines[1][j].text]
               = DictKeys(CsvRecords[1])
        /\ \A i \in 2..Len(LastBlock.lines) :
               Len(LastBlock.lines[i]) = Len(LastBlock.lines[1])

\* C7: once the flush has completed, watch_output is empty.
C7_FlushDiscardsWatchOutput ==
    Flushed => watch_output = <<>>

C9_GpuvsmiMergesLikeAmdsmi ==
    (/\ compatibility = "gpuvsmi"
     /\ format \in {"json", "human_readable"}
     /\ ~HoldsStatusString(DictV(amdsmi_output))
     /\ ~DictHas(amdsmi_output, "bdf")
     /\ ~DictHas(amdsmi_output, "uuid")) =>
        /\ CurrentRecord = amdsmi_output
        /\ (StoreReturned /\ last.argument = "values" /\ IsDict(last.data)) =>
               ~DictHas(CurrentRecord, "values")

\* C10: every sample of watch_output keeps the timestamp and the values it
\* had when store_watch_output appended it.
C10_SamplesKeepCapturedValues ==
    /\ Len(watch_output) = Len(captured)
    /\ \A i \in 1..Len(watch_output) :
           SampleValue(watch_output[i]) = captured[i]

====
